---- MODULE Spec2Model ----
(***************************************************************************)
(* lazydir: the chained-command pipeline of cli.py (cli_process_pipeline   *)
(* and the six operation functions) over the attribute / grouping engine   *)
(* of group.py, sorter.py, writer.py and utils.py.                         *)
(*                                                                         *)
(* A Python str is a sequence of one-character strings; a path is such a   *)
(* sequence.  The session state is the click context object ctx.obj.       *)
(***************************************************************************)
EXTENDS Integers, Sequences, FiniteSets, TLC

\* ------------------------------------------------------------------ bounds
\* tokens of the chain processed by cli_process_pipeline
MaxTokens == 6
\* extraction sub-commands (columns of the attribute table)
MaxCols == 2
\* apply sub-commands of one chain
MaxApply == 1

\* ------------------------------------------------------------ Python str
BS == "\\"

\* ord() of the characters the model uses
Ord(c) ==
    CASE c = " " -> 32
      [] c = "." -> 46
      [] c = "/" -> 47
      [] c = "0" -> 48
      [] c = "1" -> 49
      [] c = "2" -> 50
      [] c = "3" -> 51
      [] c = "4" -> 52
      [] c = "5" -> 53
      [] c = "6" -> 54
      [] c = "7" -> 55
      [] c = "8" -> 56
      [] c = "9" -> 57
      [] c = "-" -> 45
      [] c = "A" -> 65
      [] c = "B" -> 66
      [] c = "D" -> 68
      [] c = "N" -> 78
      [] c = BS -> 92
      [] c = "a" -> 97
      [] c = "b" -> 98
      [] c = "d" -> 100
      [] c = "n" -> 110

\* s < t for Python str: code-point lexicographic order
RECURSIVE StrLess(_, _)
StrLess(s, t) ==
    IF t = <<>> THEN FALSE
    ELSE IF s = <<>> THEN TRUE
    ELSE IF Ord(Head(s)) # Ord(Head(t)) THEN Ord(Head(s)) < Ord(Head(t))
    ELSE StrLess(Tail(s), Tail(t))

\* sep.join(parts)
RECURSIVE Join(_, _)
Join(sep, parts) ==
    IF parts = <<>> THEN <<>>
    ELSE IF Len(parts) = 1 THEN parts[1]
    ELSE parts[1] \o sep \o Join(sep, Tail(parts))

\* s.split(c) for a one-character separator c
RECURSIVE Split(_, _)
Split(s, c) ==
    IF \A i \in 1..Len(s) : s[i] # c THEN <<s>>
    ELSE LET i == CHOOSE k \in 1..Len(s) :
                      s[k] = c /\ \A j \in 1..(k - 1) : s[j] # c
         IN  <<SubSeq(s, 1, i - 1)>> \o Split(SubSeq(s, i + 1, Len(s)), c)

\* str(i) for an int i
RECURSIVE StrNat(_)
StrNat(n) ==
    LET digit == <<"0", "1", "2", "3", "4", "5", "6", "7", "8", "9">>
    IN  IF n < 10 THEN <<digit[n + 1]>>
        ELSE StrNat(n \div 10) \o <<digit[(n % 10) + 1]>>

Str(i) == IF i < 0 THEN <<"-">> \o StrNat(-i) ELSE StrNat(i)

\* list(range(start, n*step+start, step)) for step # 0: n values
Range(start, n, step) == [k \in 1..n |-> start + (k - 1) * step]

Reverse(s) == [k \in 1..Len(s) |-> s[Len(s) + 1 - k]]

ToSet(s) == {s[k] : k \in 1..Len(s)}

RECURSIVE Flatten(_)
Flatten(ss) == IF ss = <<>> THEN <<>> ELSE Head(ss) \o Flatten(Tail(ss))

\* list.index(x): the first position of x, from 0
IndexOf(l, x) == (CHOOSE k \in 1..Len(l) : l[k] = x /\ \A j \in 1..(k - 1) : l[j] # x) - 1

\* the order sorted(items, key=..., reverse=...) puts the items in, as the
\* sequence of their positions: a stable sort, also when reversed
RECURSIVE SortedIdx(_, _, _)
SortedIdx(keys, n, reverse) ==
    IF n = 0 THEN <<>>
    ELSE LET acc == SortedIdx(keys, n - 1, reverse)
             before(a, b) == IF reverse THEN StrLess(b, a) ELSE StrLess(a, b)
             later == {k \in 1..Len(acc) : before(keys[n], keys[acc[k]])}
             pos == IF later = {} THEN Len(acc) + 1
                    ELSE CHOOSE k \in later : \A j \in later : k <= j
         IN  SubSeq(acc, 1, pos - 1) \o <<n>> \o SubSeq(acc, pos, Len(acc))

Sorted(items, keys, reverse) ==
    LET idx == SortedIdx(keys, Len(items), reverse)
    IN  [k \in 1..Len(items) |-> items[idx[k]]]

\* the index of the last "/" of p, 0 when there is none (p.rfind('/') + 1)
LastSlash(p) ==
    IF \A k \in 1..Len(p) : p[k] # "/" THEN 0
    ELSE CHOOSE k \in 1..Len(p) : p[k] = "/" /\ \A j \in (k + 1)..Len(p) : p[j] # "/"

\* os.path.basename
basename(p) == SubSeq(p, LastSlash(p) + 1, Len(p))

\* head.rstrip('/')
RECURSIVE RStripSlash(_)
RStripSlash(h) ==
    IF h # <<>> /\ h[Len(h)] = "/" THEN RStripSlash(SubSeq(h, 1, Len(h) - 1)) ELSE h

\* os.path.dirname
dirname(p) ==
    LET head == SubSeq(p, 1, LastSlash(p))
    IN  IF head # <<>> /\ \E k \in 1..Len(head) : head[k] # "/"
        THEN RStripSlash(head) ELSE head

\* ------------------------------------------------------------ the directory
\* the files reader.select_glob(dir, '*') lists for `select --dir d`
F1 == <<"d", "/", "a", BS, ".", "b">>
F2 == <<"d", "/", "a", ".", BS, "b">>
F3 == <<"d", "/", "a", "1", ".", "b">>
Listing == <<F1, F2>>
AllFiles == ToSet(Listing)
\* a sub-directory of d, which select_glob does not list (os.path.isfile)
SubDir == <<"d", "/", "A", ".", BS, "b">>

Perms(S) == {p \in [1..Cardinality(S) -> S] : \A x \in S : \E k \in DOMAIN p : p[k] = x}

\* ------------------------------------------------------------------- state
VARIABLES
    files,       \* ctx.obj['files']: the working file list
    pool,        \* ctx.obj['pool']: a set of paths
    pool_order,  \* the iteration order of the set object ctx.obj['pool']
    fields,      \* ctx.obj['fields']: rows <<file, values>>
    vars,        \* ctx.obj['vars']: one name per extraction
    groups,      \* ctx.obj['groups']: items <<key, files>>
    renamed,     \* ctx.obj['renamed']: [none, paths]
    logic_mode,  \* ctx.obj['logic-mode']
    operation,   \* ctx.obj['operation']
    fs_files,    \* the file system: pairs <<path, content>>
    fs_dirs,     \* the file system: the directories that exist
    status,      \* "running", or "error" once an exception ended the process
    last,        \* the token processed last
    n_tokens,    \* tokens processed
    n_extract,   \* extraction sub-commands processed
    n_apply      \* apply sub-commands processed

ctx == <<files, pool, pool_order, fields, vars, groups, renamed, logic_mode,
         operation, fs_files, fs_dirs, status, last, n_tokens, n_extract, n_apply>>

disk == <<fs_files, fs_dirs>>

\* a Python list value of ctx.obj['renamed'], and None
PyList(l) == [none |-> FALSE, paths |-> l]
None == [none |-> TRUE, paths |-> <<>>]
\* `not x` for x a list or None
Falsy(r) == r.none \/ r.paths = <<>>

\* cli() and cli_select(): the context when cli_process_pipeline starts
Init ==
    /\ files = Listing
    /\ pool = AllFiles
    /\ pool_order \in Perms(AllFiles)
    /\ fields = <<>>
    /\ vars = <<>>
    /\ groups = <<>>
    /\ renamed = PyList(<<>>)
    /\ logic_mode = "and"
    /\ operation = "unset"
    /\ fs_files = {<<f, f>> : f \in AllFiles}
    /\ fs_dirs = {<<"d">>, SubDir}
    /\ status = "running"
    /\ last = [kind |-> "start"]
    /\ n_tokens = 0
    /\ n_extract = 0
    /\ n_apply = 0

\* the loop of cli_process_pipeline takes the next token
Fetch ==
    /\ status = "running"
    /\ n_tokens < MaxTokens
    /\ n_tokens' = n_tokens + 1

OPERATIONS == {"select", "sort", "extract", "group", "rename", "infold"}
CONNECTORS == {"and", "or", "xor", "not"}

\* an exception leaves the loop: the process ends
Raise(what) ==
    /\ status' = "error"
    /\ last' = [kind |-> "raise", what |-> what]

\* ------------------------------------------------------ pipeline: str tokens
\* OperationToken with the `select` token putting the logic mode back to and
OperationToken_resets_mode(f) ==
    /\ status = "running"
    /\ n_tokens < MaxTokens
    /\ n_tokens' = n_tokens + 1
    /\ f \in {"select", "sort", "extract", "group", "rename", "infold"}
    /\ files' = IF f # "select" THEN pool_order ELSE files
    /\ logic_mode' = IF f = "select" THEN "and" ELSE logic_mode
    /\ operation' = f
    /\ last' = [kind |-> "operation", name |-> f]
    /\ UNCHANGED <<pool, pool_order, fields, vars, groups, renamed>>
    /\ UNCHANGED <<fs_files, fs_dirs, status, n_extract, n_apply>>

\* f in OPERATIONS.keys()
OperationToken(f) ==
    /\ Fetch
    /\ f \in OPERATIONS
    /\ files' = IF f # "select" THEN pool_order ELSE files
    /\ operation' = f
    /\ last' = [kind |-> "operation", name |-> f]
    /\ UNCHANGED <<pool, pool_order, fields, vars, groups, renamed, logic_mode>>
    /\ UNCHANGED <<disk, status, n_extract, n_apply>>

\* any other str token: a logic connector
ConnectorToken(f) ==
    /\ Fetch
    /\ f \in CONNECTORS
    /\ logic_mode' = f
    /\ last' = [kind |-> "connector", name |-> f]
    /\ UNCHANGED <<files, pool, pool_order, fields, vars, groups, renamed, operation>>
    /\ UNCHANGED <<disk, status, n_extract, n_apply>>

\* ---------------------------------------------------------------- selection
\* reader.exact, contains, ...: filter(lambda file: pred(file), files), the
\* predicate given by the set of paths it accepts
Selector(fl, accepted) == SelectSeq(fl, LAMBDA f : f \in accepted)

\* Combine with `not` as the complement of the result over the whole listing
Combine_not_is_complement(mode, p, s) ==
    IF mode = "and" THEN p \cap s
    ELSE IF mode = "or" THEN p \cup s
    ELSE IF mode = "xor" THEN (p \ s) \cup (s \ p)
    ELSE AllFiles \ s

\* Combine with `or` replacing the pool by the result
Combine_or_replaces(mode, p, s) ==
    IF mode = "and" THEN p \cap s
    ELSE IF mode = "or" THEN s
    ELSE IF mode = "xor" THEN (p \ s) \cup (s \ p)
    ELSE p \ s

\* selection(): the four branches on mode
Combine(mode, p, s) ==
    IF mode = "and" THEN p \cap s
    ELSE IF mode = "or" THEN p \cup s
    ELSE IF mode = "xor" THEN (p \ s) \cup (s \ p)
    ELSE p \ s

\* a selector sub-command dispatched to selection()
Selection(accepted) ==
    /\ Fetch
    /\ operation = "select"
    /\ LET result == ToSet(Selector(files, accepted))
           new == Combine(logic_mode, pool, result)
       IN  /\ pool' = new
           /\ pool_order' \in Perms(new)
           /\ last' = [kind |-> "selector", mode |-> logic_mode, accepted |-> accepted,
                       result |-> result]
    /\ UNCHANGED <<files, fields, vars, groups, renamed, logic_mode, operation>>
    /\ UNCHANGED <<disk, status, n_extract, n_apply>>

\* --------------------------------------------------------------- extraction
extract_name(fl) == [k \in 1..Len(fl) |-> Split(basename(fl[k]), ".")[1]]

extract_ext(fl) == [k \in 1..Len(fl) |-> LET parts == Split(fl[k], ".") IN parts[Len(parts)]]

\* file[len(file)-span:] on the basename up to its first '.': a negative
\* start counts from the end of the str
extract_last_letters(fl, span) ==
    [k \in 1..Len(fl) |->
        LET file == Split(basename(fl[k]), ".")[1]
            start == Len(file) - span
            from == IF start >= 0 THEN start
                    ELSE IF Len(file) + start < 0 THEN 0 ELSE Len(file) + start
        IN  SubSeq(file, from + 1, Len(file))]

extract_position(fl, start, step, reverse) ==
    LET indexes == Range(start, Len(fl), step)
    IN  [k \in 1..Len(fl) |-> Str((IF reverse THEN Reverse(indexes) ELSE indexes)[k])]

extract_group_index(fl, gr, start, step, reverse) ==
    LET sorted == Sorted(gr, [k \in 1..Len(gr) |-> gr[k][1]], FALSE)
        s_groups == IF reverse THEN Reverse(sorted) ELSE sorted
        index == Range(start, Len(gr), step)
        attribute(file) ==
            LET hit == {k \in 1..Len(s_groups) : file \in ToSet(s_groups[k][2])}
            IN  IF hit = {} THEN <<>>
                ELSE <<Str(index[CHOOSE k \in hit : \A j \in hit : k <= j])>>
    IN  Flatten([k \in 1..Len(fl) |-> attribute(fl[k])])

\* extract_sub_index with enumerate(files) for the position in the group
extract_sub_index_by_position(fl, gr, start, step) ==
    LET attribute(k) ==
            IF \E g \in 1..Len(gr) : fl[k] \in ToSet(gr[g][2])
            THEN <<Str((k - 1) * step + start)>> ELSE <<>>
    IN  Flatten([k \in 1..Len(fl) |-> attribute(k)])

extract_sub_index(fl, gr, start, step) ==
    LET attribute(file) ==
            LET hit == {k \in 1..Len(gr) : file \in ToSet(gr[k][2])}
            IN  IF hit = {} THEN <<>>
                ELSE LET g == gr[CHOOSE k \in hit : \A j \in hit : k <= j]
                     IN  <<Str(IndexOf(g[2], file) * step + start)>>
    IN  Flatten([k \in 1..Len(fl) |-> attribute(fl[k])])

\* zip(selections, field): the shorter of the two ends the loop
add_field(selections, field) ==
    [k \in 1..Len(selections) |->
        IF k <= Len(field) THEN <<selections[k][1], Append(selections[k][2], field[k])>>
        ELSE selections[k]]

\* the extraction sub-commands of the model, with click's defaults for
\* --start and --step
DefaultStart == 1
DefaultStep == 1

Extractors ==
    {[cmd |-> "name"], [cmd |-> "extension"],
     [cmd |-> "sub-index", start |-> DefaultStart, step |-> DefaultStep]}
    \cup {[cmd |-> c, start |-> DefaultStart, step |-> DefaultStep, reverse |-> FALSE] :
            c \in {"position", "group-index"}}

\* func() raises: range() with a step of 0 is a ValueError; extract_group_index
\* calls range() once per file
ExtractorRaises(ex) ==
    \/ ex.cmd = "position" /\ ex.step = 0
    \/ ex.cmd = "group-index" /\ ex.step = 0 /\ files # <<>>

\* func() of the tuple (var, lambda) an extraction sub-command returns
ExtractorResult(ex) ==
    CASE ex.cmd = "name" -> extract_name(files)
      [] ex.cmd = "extension" -> extract_ext(files)
      [] ex.cmd = "position" -> extract_position(files, ex.start, ex.step, ex.reverse)
      [] ex.cmd = "group-index" ->
            extract_group_index(files, groups, ex.start, ex.step, ex.reverse)
      [] ex.cmd = "sub-index" -> extract_sub_index(files, groups, ex.start, ex.step)
      [] ex.cmd = "last-letter" -> extract_last_letters(files, ex.span)

\* --var of the extraction sub-commands ('' when not given)
Names == {<<>>, <<"x">>}

\* the table after extraction() has run with an extractor result
Extracted(table, fl, field) ==
    LET seeded == IF table = <<>> THEN [k \in 1..Len(fl) |-> <<fl[k], <<>> >>] ELSE table
    IN  add_field(seeded, field)

\* an extraction sub-command dispatched to extraction()
Extraction(name, ex) ==
    /\ Fetch
    /\ operation = "extract"
    /\ Len(vars) < MaxCols
    /\ vars' = Append(vars, name)
    /\ IF ExtractorRaises(ex)
       THEN /\ Raise(ex.cmd)
            /\ fields' = Extracted(fields, files, <<>>)
            /\ UNCHANGED n_extract
       ELSE /\ fields' = Extracted(fields, files, ExtractorResult(ex))
            /\ n_extract' = n_extract + 1
            /\ last' = [kind |-> "extractor", cmd |-> ex.cmd, ex |-> ex,
                        values |-> ExtractorResult(ex),
                        n_values |-> Len(ExtractorResult(ex)), n_rows |-> Len(fields')]
            /\ UNCHANGED status
    /\ UNCHANGED <<files, pool, pool_order, groups, renamed, logic_mode, operation>>
    /\ UNCHANGED <<disk, n_apply>>

\* ------------------------------------------------------- column selection
\* l[i] of Python, i from -len(l) to len(l) - 1
PyItem(l, i) == IF i < 0 THEN l[Len(l) + i + 1] ELSE l[i + 1]
PyItemOk(l, i) == -Len(l) <= i /\ i < Len(l)

\* the options of `by` and `using`: --all, --var, --index, --slice
ColSels ==
    {[opt |-> "all"]}
    \cup {[opt |-> "var", names |-> <<n>>] : n \in {<<"x">>, <<"y">>}}
    \cup {[opt |-> "index", indexes |-> i] : i \in {<<0>>, <<0, 1>>, <<1, 0>>}}
    \cup {[opt |-> "slice", lo |-> 0, hi |-> 1]}

\* the index list select_fields builds; `inclusive` is cli_by's range(s[0], s[1]+1),
\* cli_using has range(*s)
IndexList(sel, inclusive) ==
    CASE sel.opt = "all" -> [k \in 1..Len(fields[1][2]) |-> k - 1]
      [] sel.opt = "var" -> [k \in 1..Len(sel.names) |-> IndexOf(vars, sel.names[k])]
      [] sel.opt = "index" -> sel.indexes
      [] sel.opt = "slice" ->
            LET n == sel.hi - sel.lo + (IF inclusive THEN 1 ELSE 0)
            IN  [k \in 1..(IF n < 0 THEN 0 ELSE n) |-> sel.lo + k - 1]

\* fields[0] of an empty table (IndexError), list.index of a name that is not
\* in the list (ValueError), attributes[i] out of range (IndexError)
SelectRaises(sel, inclusive) ==
    \/ sel.opt = "all" /\ fields = <<>>
    \/ sel.opt = "var" /\ \E k \in 1..Len(sel.names) : sel.names[k] \notin ToSet(vars)
    \/ /\ ~(sel.opt = "all" /\ fields = <<>>)
       /\ ~(sel.opt = "var" /\ \E k \in 1..Len(sel.names) : sel.names[k] \notin ToSet(vars))
       /\ \E r \in 1..Len(fields) :
            \E k \in 1..Len(IndexList(sel, inclusive)) :
                ~PyItemOk(fields[r][2], IndexList(sel, inclusive)[k])

\* SelectError whose ValueError does not carry the name
SelectError_without_name(sel) ==
    IF sel.opt = "var" /\ \E k \in 1..Len(sel.names) : sel.names[k] \notin ToSet(vars)
    THEN [type |-> "ValueError", arg |-> <<>>]
    ELSE [type |-> "IndexError", arg |-> <<>>]

\* the exception: list.index(var) raises ValueError('<var> is not in list') for
\* the first name that is not in the list; the others are IndexErrors
SelectError(sel) ==
    IF sel.opt = "var" /\ \E k \in 1..Len(sel.names) : sel.names[k] \notin ToSet(vars)
    THEN [type |-> "ValueError",
          arg |-> sel.names[CHOOSE k \in 1..Len(sel.names) :
                      /\ sel.names[k] \notin ToSet(vars)
                      /\ \A j \in 1..(k - 1) : sel.names[j] \in ToSet(vars)]]
    ELSE [type |-> "IndexError", arg |-> <<>>]

select_fields(selections, index_list) ==
    [r \in 1..Len(selections) |->
        <<selections[r][1],
          [k \in 1..Len(index_list) |-> PyItem(selections[r][2], index_list[k])]>>]

\* select_variables and the three branches of cli_by / cli_using
Selected(sel, inclusive) == select_fields(fields, IndexList(sel, inclusive))

\* ------------------------------------------------------------------ sorting
\* sorter.sorter: sorted() on the values joined by a backslash
sorter(rows, reverse) ==
    LET keys == [r \in 1..Len(rows) |-> Join(<<BS>>, rows[r][2])]
        sorted_files == Sorted(rows, keys, reverse)
    IN  [r \in 1..Len(rows) |-> sorted_files[r][1]]

\* a `by` sub-command dispatched to sorting()
Sorting(sel, reverse) ==
    /\ Fetch
    /\ operation = "sort"
    /\ IF SelectRaises(sel, TRUE)
       THEN /\ status' = "error"
            /\ last' = [kind |-> "raise", what |-> "by", sel |-> sel, error |-> SelectError(sel)]
            /\ UNCHANGED files
       ELSE /\ files' = sorter(Selected(sel, TRUE), reverse)
            /\ last' = [kind |-> "by", sel |-> sel, reverse |-> reverse, before |-> files]
            /\ UNCHANGED status
    /\ UNCHANGED <<pool, pool_order, fields, vars, groups, renamed, logic_mode, operation>>
    /\ UNCHANGED <<disk, n_extract, n_apply>>

\* ----------------------------------------------------------------- grouping
\* collapse_groups with `tmp_groups[key] = [file]` for the append: a group
\* keeps its last file only
collapse_groups_overwrites(selections) ==
    LET key(r) == Join(<<BS>>, selections[r][2])
        rows == [r \in 1..Len(selections) |-> r]
        first == SelectSeq(rows, LAMBDA r : \A q \in 1..(r - 1) : key(q) # key(r))
        members(r) == SelectSeq(rows, LAMBDA q : key(q) = key(r))
    IN  [g \in 1..Len(first) |->
            <<key(first[g]),
              <<selections[members(first[g])[Len(members(first[g]))]][1]>> >>]

\* collapse_groups: a dict keyed by the joined values, in insertion order
collapse_groups(selections) ==
    LET key(r) == Join(<<BS>>, selections[r][2])
        rows == [r \in 1..Len(selections) |-> r]
        first == SelectSeq(rows, LAMBDA r : \A q \in 1..(r - 1) : key(q) # key(r))
        members(r) == SelectSeq(rows, LAMBDA q : key(q) = key(r))
    IN  [g \in 1..Len(first) |->
            <<key(first[g]),
              [m \in 1..Len(members(first[g])) |-> selections[members(first[g])[m]][1]]>>]

\* a `using` sub-command dispatched to grouping()
Grouping(sel) ==
    /\ Fetch
    /\ operation = "group"
    /\ IF SelectRaises(sel, FALSE)
       THEN /\ status' = "error"
            /\ last' = [kind |-> "raise", what |-> "using", sel |-> sel,
                        error |-> SelectError(sel)]
            /\ UNCHANGED groups
       ELSE /\ groups' = collapse_groups(Selected(sel, FALSE))
            /\ last' = [kind |-> "using", sel |-> sel, rows |-> Selected(sel, FALSE)]
            /\ UNCHANGED status
    /\ UNCHANGED <<files, pool, pool_order, fields, vars, renamed, logic_mode, operation>>
    /\ UNCHANGED <<disk, n_extract, n_apply>>

\* ------------------------------------------------------- utils: paths, dicts
\* one tuple of utils.filetuple: <<file, dirname, basename, name, ext>>
filetuple(file) ==
    LET base == basename(file)
        dot == CHOOSE k \in 1..Len(base) : base[k] = "." /\ \A j \in 1..(k - 1) : base[j] # "."
    IN  IF base # <<>> /\ base[1] = "." THEN <<file, dirname(file), base, <<>>, base>>
        ELSE IF \A k \in 1..Len(base) : base[k] # "." THEN <<file, dirname(file), base, base, <<>> >>
        ELSE <<file, dirname(file), base, SubSeq(base, 1, dot - 1), SubSeq(base, dot + 1, Len(base))>>

compose_filepath(dir, filename, extension) ==
    dir \o (IF dir # <<>> THEN <<"/">> ELSE <<>>) \o filename
        \o (IF extension # <<>> THEN <<".">> \o extension ELSE <<>>)

\* a dict as the sequence of its assignments <<key, value>>: the last one of a
\* key is its value
HasKey(d, key) == \E k \in 1..Len(d) : d[k][1] = key
Lookup(d, key) ==
    d[CHOOSE k \in 1..Len(d) : d[k][1] = key /\ \A j \in (k + 1)..Len(d) : d[j][1] # key][2]

\* utils.datadict: zip(vars, var_names), 'data_<n>' for the n-th unnamed column
datadict(values, var_names) ==
    LET n == IF Len(values) < Len(var_names) THEN Len(values) ELSE Len(var_names)
        unnamed(k) == Cardinality({j \in 1..(k - 1) : var_names[j] = <<>>})
    IN  [k \in 1..n |->
            <<IF var_names[k] # <<>> THEN var_names[k]
              ELSE <<"d", "a", "t", "a", "_">> \o Str(unnamed(k)),
              values[k]>>]

\* a template of str.format: literal pieces and {key} placeholders
Lit(text) == [key |-> FALSE, text |-> text]
Key(name) == [key |-> TRUE, text |-> name]
\* template.format(**d) raises KeyError
FormatRaises(template, d) ==
    \E k \in 1..Len(template) : template[k].key /\ ~HasKey(d, template[k].text)
Format(template, d) ==
    Flatten([k \in 1..Len(template) |->
        IF template[k].key THEN Lookup(d, template[k].text) ELSE template[k].text])

\* ----------------------------------------------------------------- renaming
\* str.upper, str.lower on the characters of the model
UpperChar(c) ==
    CASE c = "a" -> "A" [] c = "b" -> "B" [] c = "d" -> "D" [] c = "n" -> "N" [] OTHER -> c
LowerChar(c) ==
    CASE c = "A" -> "a" [] c = "B" -> "b" [] c = "D" -> "d" [] c = "N" -> "n" [] OTHER -> c

upper(fl) ==
    [k \in 1..Len(fl) |->
        LET t == filetuple(fl[k])
        IN  compose_filepath(t[2], [i \in 1..Len(t[4]) |-> UpperChar(t[4][i])], t[5])]

lower(fl) ==
    [k \in 1..Len(fl) |->
        LET t == filetuple(fl[k])
        IN  compose_filepath(t[2], [i \in 1..Len(t[4]) |-> LowerChar(t[4][i])], t[5])]

\* name.replace(char, repl) for a one-character char, every occurrence
replace(fl, char, repl) ==
    [k \in 1..Len(fl) |->
        LET t == filetuple(fl[k])
        IN  compose_filepath(t[2], Join(repl, Split(t[4], char)), t[5])]

\* re.sub of a pattern that is one literal character, every match
sub(fl, expr, repl) ==
    [k \in 1..Len(fl) |->
        LET t == filetuple(fl[k])
        IN  compose_filepath(t[2], Join(repl, Split(t[4], expr)), t[5])]

\* s.split(c, maxsplit): at most maxsplit splits, no limit when maxsplit < 0
RECURSIVE SplitMax(_, _, _)
SplitMax(s, c, maxsplit) ==
    IF maxsplit = 0 \/ \A i \in 1..Len(s) : s[i] # c THEN <<s>>
    ELSE LET i == CHOOSE k \in 1..Len(s) :
                      s[k] = c /\ \A j \in 1..(k - 1) : s[j] # c
         IN  <<SubSeq(s, 1, i - 1)>>
                 \o SplitMax(SubSeq(s, i + 1, Len(s)), c,
                             IF maxsplit < 0 THEN maxsplit ELSE maxsplit - 1)

\* word[0].upper() + word[1:] if word else ''
Capitalized(word) == IF word = <<>> THEN <<>> ELSE <<UpperChar(word[1])>> \o Tail(word)

\* one pass of the loop of writer.capitalize: the new name and the value the
\* pass leaves in `count`
capitalize_pass(file, prev_char, count, capitalize_start) ==
    LET t == filetuple(file)
        words == SplitMax(t[4], prev_char, count)
        l == Len(words)
        first_word == IF capitalize_start THEN Capitalized(words[1]) ELSE words[1]
        all == count > l \/ count = -1
        new_count == IF l = 1 THEN count ELSE IF all THEN l ELSE count
        missing == IF all \/ new_count >= l THEN <<>> ELSE SubSeq(words, new_count + 1, l)
        upper_words ==
            [i \in 1..((IF new_count < l THEN new_count ELSE l) - 1) |-> Capitalized(words[i + 1])]
                \o missing
    IN  [count |-> new_count,
         path |-> IF l = 1
                  THEN t[2] \o (IF t[2] # <<>> THEN <<"/">> ELSE <<>>) \o first_word
                           \o <<".">> \o t[5]
                  ELSE compose_filepath(t[2],
                           Join(<<prev_char>>, <<first_word>> \o upper_words), t[5])]

\* writer.capitalize: `count` is assigned inside the loop and kept for the
\* files that follow
RECURSIVE capitalize(_, _, _, _)
capitalize(fl, prev_char, count, capitalize_start) ==
    IF fl = <<>> THEN <<>>
    ELSE LET pass == capitalize_pass(Head(fl), prev_char, count, capitalize_start)
         IN  <<pass.path>> \o capitalize(Tail(fl), prev_char, pass.count, capitalize_start)

\* the dict rename_format passes to template.format for the k-th pair of
\* zip(filetuple(files), filedata)
format_names(fl, filedata, names, k) ==
    LET t == filetuple(fl[k])
    IN  << <<<<"b", "a", "s", "e", "n", "a", "m", "e">>, t[4]>>,
           <<<<"e", "x", "t", "e", "n", "s", "i", "o", "n">>, t[5]>>,
           <<<<"f", "i", "l", "e", "n", "a", "m", "e">>, t[4] \o <<".">> \o t[5]>> >>
        \o datadict(filedata[k][2], names)

\* `if not filedata: filedata = [(file, []) for file in files]`
format_data(fl, filedata) ==
    IF filedata = <<>> THEN [k \in 1..Len(fl) |-> <<fl[k], <<>> >>] ELSE filedata

format_pairs(fl, filedata) ==
    IF Len(fl) < Len(format_data(fl, filedata)) THEN Len(fl) ELSE Len(format_data(fl, filedata))

rename_format_raises(fl, filedata, names, template) ==
    \E k \in 1..format_pairs(fl, filedata) :
        FormatRaises(template, format_names(fl, format_data(fl, filedata), names, k))

rename_format(fl, filedata, names, template) ==
    [k \in 1..format_pairs(fl, filedata) |->
        compose_filepath(filetuple(fl[k])[2],
            Format(template, format_names(fl, format_data(fl, filedata), names, k)), <<>>)]

\* ---------------------------------------------------------------- infolding
\* infold_name with the name without extension for the basename
infold_name_drops_ext(fl, name) ==
    [k \in 1..Len(fl) |->
        LET t == filetuple(fl[k]) IN t[2] \o <<"/">> \o name \o <<"/">> \o t[4]]

infold_name(fl, name) ==
    [k \in 1..Len(fl) |->
        LET t == filetuple(fl[k]) IN t[2] \o <<"/">> \o name \o <<"/">> \o t[3]]

\* the dict infold_template passes to template.format for the k-th pair of
\* zip(attributes, files)
infold_names(attributes, gr, var_names, joinchar, k) ==
    LET file == attributes[k][1]
        hit == {g \in 1..Len(gr) : file \in ToSet(gr[g][2])}
        group_name ==
            IF hit = {} THEN <<>>
            ELSE Join(joinchar, Split(gr[CHOOSE g \in hit : \A h \in hit : g <= h][1], BS))
    IN  datadict(attributes[k][2], var_names) \o << <<<<"g", "r", "o", "u", "p">>, group_name>> >>

infold_pairs(fl, attributes) ==
    IF Len(fl) < Len(attributes) THEN Len(fl) ELSE Len(attributes)

infold_template_raises(fl, attributes, gr, template, var_names, joinchar) ==
    \E k \in 1..infold_pairs(fl, attributes) :
        FormatRaises(template, infold_names(attributes, gr, var_names, joinchar, k))

infold_template(fl, attributes, gr, template, var_names, joinchar) ==
    [k \in 1..infold_pairs(fl, attributes) |->
        dirname(fl[k]) \o <<"/">>
            \o Format(template, infold_names(attributes, gr, var_names, joinchar, k))
            \o <<"/">> \o basename(fl[k])]

\* -------------------------------------------------------------------- apply
\* os.path.exists
exists(ff, dd, p) == p \in dd \/ \E e \in ff : e[1] = p

\* p and the directories above it
RECURSIVE Ancestors(_)
Ancestors(p) == IF p = <<>> THEN {} ELSE {p} \cup Ancestors(dirname(p))

\* os.makedirs(p) raises: the empty path, or a file where a directory is needed
makedirs_raises(ff, p) == p = <<>> \/ \E a \in Ancestors(p) : \E e \in ff : e[1] = a

\* os.rename(o, r) raises: no file o, r an existing directory, or the parent
\* of r not a directory
rename_raises(ff, dd, o, r) ==
    \/ ~\E e \in ff : e[1] = o
    \/ r \in dd
    \/ dirname(r) \notin dd

\* the call of os.makedirs or os.rename the loop of writer.rewrite makes last
\* for the pair (o, r), and how it ended; dirs: the directories at that call
Call(o, r, outcome, dd) == [original |-> o, proposed |-> r, outcome |-> outcome, dirs |-> dd]

\* rewrite_pair inside a try/except that goes on to the next pair
rewrite_pair_goes_on(st, o, r) ==
    LET r_dir == dirname(r)
        made == IF exists(st.files, st.dirs, r_dir) THEN st.dirs
                ELSE st.dirs \cup Ancestors(r_dir)
        content == (CHOOSE e \in st.files : e[1] = o)[2]
    IN  IF o = r THEN st
        ELSE IF ~exists(st.files, st.dirs, r_dir) /\ makedirs_raises(st.files, r_dir)
        THEN [st EXCEPT !.ok = FALSE,
                        !.log = Append(@, Call(o, r, "makedirs raised", st.dirs))]
        ELSE IF rename_raises(st.files, made, o, r)
        THEN [st EXCEPT !.ok = FALSE, !.dirs = made,
                        !.log = Append(@, Call(o, r, "rename raised", made))]
        ELSE [ok |-> st.ok, dirs |-> made,
              files |-> {e \in st.files : e[1] # o /\ e[1] # r} \cup {<<r, content>>},
              log |-> Append(st.log, Call(o, r, "renamed", made))]

\* one pass of the loop of writer.rewrite on the pair (o, r); st.log: the
\* pairs the loop has called os.makedirs or os.rename for
rewrite_pair(st, o, r) ==
    LET r_dir == dirname(r)
        made == IF exists(st.files, st.dirs, r_dir) THEN st.dirs
                ELSE st.dirs \cup Ancestors(r_dir)
        content == (CHOOSE e \in st.files : e[1] = o)[2]
    IN  IF ~st.ok \/ o = r THEN st
        ELSE IF ~exists(st.files, st.dirs, r_dir) /\ makedirs_raises(st.files, r_dir)
        THEN [st EXCEPT !.ok = FALSE,
                        !.log = Append(@, Call(o, r, "makedirs raised", st.dirs))]
        ELSE IF rename_raises(st.files, made, o, r)
        THEN [st EXCEPT !.ok = FALSE, !.dirs = made,
                        !.log = Append(@, Call(o, r, "rename raised", made))]
        ELSE [ok |-> TRUE, dirs |-> made,
              files |-> {e \in st.files : e[1] # o /\ e[1] # r} \cup {<<r, content>>},
              log |-> Append(st.log, Call(o, r, "renamed", made))]

\* writer.rewrite: the pairs of zip(original, renamed), in order
RECURSIVE rewrite_upto(_, _, _, _)
rewrite_upto(st, original, new, n) ==
    IF n = 0 THEN st
    ELSE rewrite_pair(rewrite_upto(st, original, new, n - 1), original[n], new[n])

\* rewrite taking the pairs of zip(original, renamed) from the last to the first
rewrite_backwards(ff, dd, original, new) ==
    LET n == IF Len(original) < Len(new) THEN Len(original) ELSE Len(new)
    IN  rewrite_upto([ok |-> TRUE, files |-> ff, dirs |-> dd, log |-> <<>>],
                     Reverse(SubSeq(original, 1, n)), Reverse(SubSeq(new, 1, n)), n)

rewrite(ff, dd, original, new) ==
    rewrite_upto([ok |-> TRUE, files |-> ff, dirs |-> dd, log |-> <<>>], original, new,
                 IF Len(original) < Len(new) THEN Len(original) ELSE Len(new))

\* ------------------------------------------- renaming() and infolding()
\* Seeded without its condition: every sub-command starts from the file list
Seeded_every_time(r, fl) == fl

\* `if not ctx.obj['renamed']: ctx.obj['renamed'] = ctx.obj['files'].copy()`
Seeded(r, fl) == IF Falsy(r) THEN fl ELSE r.paths

\* ImplicitGroup without its condition: every infold sub-command regroups
ImplicitGroup_every_time(gr, fl) == << <<<<>>, fl>> >>

\* `if not ctx.obj['groups']: ctx.obj['groups'] = [('', ctx.obj['files']),]`
ImplicitGroup(gr, fl) == IF gr = <<>> THEN << <<<<>>, fl>> >> ELSE gr

RenameCmds ==
    {[cmd |-> "upper"], [cmd |-> "lower"]}
    \cup {[cmd |-> "format", template |-> t] :
            t \in {<<Key(<<"x">>)>>, <<Key(<<"d", "a", "t", "a", "_", "0">>)>>,
                   <<Key(<<"b", "a", "s", "e", "n", "a", "m", "e">>), Lit(<<"1">>)>>}}

InfoldCmds ==
    {[cmd |-> "folder-name", name |-> <<"n">>]}
    \cup {[cmd |-> "folder-template", template |-> t, joinchar |-> <<" ">>] :
            t \in {<<Key(<<"g", "r", "o", "u", "p">>)>>, <<Key(<<"x">>)>>, <<Lit(<<"n">>)>>}}

\* function() of a rename sub-command raises
RenameRaises(c, plan) ==
    c.cmd = "format" /\ rename_format_raises(plan, fields, vars, c.template)

\* function() of a rename sub-command on ctx.obj['renamed']
RenameResult(c, plan) ==
    CASE c.cmd = "upper" -> upper(plan)
      [] c.cmd = "lower" -> lower(plan)
      [] c.cmd = "format" -> rename_format(plan, fields, vars, c.template)
      [] c.cmd = "replace" -> replace(plan, c.char, c.repl)
      [] c.cmd = "sub" -> sub(plan, c.char, c.repl)
      [] c.cmd = "capitalise" -> capitalize(plan, c.char, c.count, c.start)

\* a rename sub-command dispatched to renaming()
Renaming(c) ==
    /\ Fetch
    /\ operation = "rename"
    /\ IF RenameRaises(c, Seeded(renamed, files))
       THEN /\ status' = "error"
            /\ last' = [kind |-> "raise", what |-> c.cmd, c |-> c]
            /\ renamed' = PyList(Seeded(renamed, files))
       ELSE /\ renamed' = PyList(RenameResult(c, Seeded(renamed, files)))
            /\ last' = [kind |-> "rename", cmd |-> c.cmd, c |-> c,
                        plan |-> Seeded(renamed, files)]
            /\ UNCHANGED status
    /\ UNCHANGED <<files, pool, pool_order, fields, vars, groups, logic_mode, operation>>
    /\ UNCHANGED <<disk, n_extract, n_apply>>

InfoldRaises(c, plan, gr) ==
    /\ c.cmd = "folder-template"
    /\ infold_template_raises(plan, fields, gr, c.template, vars, c.joinchar)

InfoldResult(c, plan, gr) ==
    CASE c.cmd = "folder-name" -> infold_name(plan, c.name)
      [] c.cmd = "folder-template" ->
            infold_template(plan, fields, gr, c.template, vars, c.joinchar)

\* an infold sub-command dispatched to infolding()
Infolding(c) ==
    /\ Fetch
    /\ operation = "infold"
    /\ groups' = ImplicitGroup(groups, files)
    /\ IF InfoldRaises(c, Seeded(renamed, files), groups')
       THEN /\ status' = "error"
            /\ last' = [kind |-> "raise", what |-> c.cmd, c |-> c]
            /\ renamed' = PyList(Seeded(renamed, files))
       ELSE /\ renamed' = PyList(InfoldResult(c, Seeded(renamed, files), groups'))
            /\ last' = [kind |-> "infold", cmd |-> c.cmd, c |-> c,
                        plan |-> Seeded(renamed, files)]
            /\ UNCHANGED status
    /\ UNCHANGED <<files, pool, pool_order, fields, vars, logic_mode, operation>>
    /\ UNCHANGED <<disk, n_extract, n_apply>>

\* `apply` dispatched to renaming() or infolding(): function() is
\* writer.rewrite(files, renamed), which returns None
Apply ==
    /\ Fetch
    /\ operation \in {"rename", "infold"}
    /\ n_apply < MaxApply
    /\ n_apply' = n_apply + 1
    /\ groups' = IF operation = "infold" THEN ImplicitGroup(groups, files) ELSE groups
    /\ LET plan == Seeded(renamed, files)
           done == rewrite(fs_files, fs_dirs, files, plan)
       IN  /\ fs_files' = done.files
           /\ fs_dirs' = done.dirs
           /\ IF done.ok
              THEN /\ renamed' = None
                   /\ last' = [kind |-> "apply", plan |-> plan, log |-> done.log]
                   /\ UNCHANGED status
              ELSE /\ status' = "error"
                   /\ last' = [kind |-> "raise", what |-> "apply", plan |-> plan,
                               log |-> done.log]
                   /\ renamed' = PyList(plan)
    /\ UNCHANGED <<files, pool, pool_order, fields, vars, logic_mode, operation>>
    /\ UNCHANGED n_extract

Next ==
    \/ \E f \in OPERATIONS : OperationToken(f)
    \/ \E f \in CONNECTORS : ConnectorToken(f)
    \/ \E a \in SUBSET AllFiles : Selection(a)
    \/ \E name \in Names, ex \in Extractors : Extraction(name, ex)
    \/ \E sel \in ColSels, reverse \in BOOLEAN : Sorting(sel, reverse)
    \/ \E sel \in ColSels : Grouping(sel)
    \/ \E c \in RenameCmds : Renaming(c)
    \/ \E c \in InfoldCmds : Infolding(c)
    \/ Apply

Spec == Init /\ [][Next]_ctx
\* ------------------------------------------------ collapse_groups on any table
\* the tables of three rows and two columns over values with and without the
\* separator of the group key
Files3 == <<F1, F2, F3>>
Values == {<<"a">>, <<"a", BS>>, <<"b">>, <<BS, "b">>}

InitCollapse ==
    /\ files = Files3
    /\ pool = ToSet(Files3)
    /\ pool_order = Files3
    /\ \E c1 \in [1..3 -> Values], c2 \in [1..3 -> Values] :
          fields = [r \in 1..3 |-> <<Files3[r], <<c1[r], c2[r]>> >>]
    /\ vars = << <<>>, <<"x">> >>
    /\ groups = <<>>
    /\ renamed = PyList(<<>>)
    /\ logic_mode = "and"
    /\ operation = "group"
    /\ fs_files = {<<f, f>> : f \in ToSet(Files3)}
    /\ fs_dirs = {<<"d">>}
    /\ status = "running"
    /\ last = [kind |-> "operation", name |-> "group"]
    /\ n_tokens = MaxTokens - 1
    /\ n_extract = 2
    /\ n_apply = 0

NextCollapse == \E sel \in ColSels : Grouping(sel)

SpecCollapse == InitCollapse /\ [][NextCollapse]_ctx

\* ------------------------- the chain select, extract name, infold folder-name, apply
\* the folder names: a new name, the name of a file of d, the name of a
\* sub-directory of d
FolderNames == {<<"n">>, basename(F3), basename(SubDir)}

\* the context after `select --dir d` and its selectors: any non-empty pool
InitRoundTrip ==
    /\ files = Files3
    /\ pool \in SUBSET ToSet(Files3) \ {{}}
    /\ pool_order \in Perms(pool)
    /\ fields = <<>>
    /\ vars = <<>>
    /\ groups = <<>>
    /\ renamed = PyList(<<>>)
    /\ logic_mode = "and"
    /\ operation = "select"
    /\ fs_files = {<<f, f>> : f \in ToSet(Files3)}
    /\ fs_dirs = {<<"d">>, SubDir}
    /\ status = "running"
    /\ last = [kind |-> "operation", name |-> "select"]
    /\ n_tokens = 1
    /\ n_extract = 0
    /\ n_apply = 0

NextRoundTrip ==
    \/ last.kind = "operation" /\ operation = "select" /\ OperationToken("extract")
    \/ last.kind = "operation" /\ \E name \in Names : Extraction(name, [cmd |-> "name"])
    \/ last.kind = "extractor" /\ OperationToken("infold")
    \/ last.kind = "operation" /\
          \E F \in FolderNames : Infolding([cmd |-> "folder-name", name |-> F])
    \/ last.kind = "infold" /\ Apply

SpecRoundTrip == InitRoundTrip /\ [][NextRoundTrip]_ctx

\* ------------------------------------ group-index and sub-index on any group map
\* the group keys, --start and --step of the index extractors
Keys == {<<"a">>, <<"a", BS>>, <<"b">>}
Starts == {0, 1}
Steps == {-1, 0, 1, 2}

\* the context after a `group using` over the first m rows of a table in any
\* order, the working file list being the listing
InitIndex ==
    /\ files = Files3
    /\ pool = ToSet(Files3)
    /\ pool_order = Files3
    /\ fields = <<>>
    /\ vars = <<>>
    /\ \E p \in Perms(ToSet(Files3)), c \in [1..3 -> Keys], m \in 0..3 :
          groups = collapse_groups([k \in 1..m |-> <<p[k], <<c[k]>> >>])
    /\ renamed = PyList(<<>>)
    /\ logic_mode = "and"
    /\ operation = "extract"
    /\ fs_files = {<<f, f>> : f \in ToSet(Files3)}
    /\ fs_dirs = {<<"d">>, SubDir}
    /\ status = "running"
    /\ last = [kind |-> "operation", name |-> "extract"]
    /\ n_tokens = MaxTokens - 1
    /\ n_extract = 0
    /\ n_apply = 0

NextIndex ==
    \/ \E start \in Starts, step \in Steps, reverse \in BOOLEAN :
          Extraction(<<>>, [cmd |-> "group-index", start |-> start, step |-> step,
                           reverse |-> reverse])
    \/ \E start \in Starts, step \in Steps :
          Extraction(<<>>, [cmd |-> "sub-index", start |-> start, step |-> step])

SpecIndex == InitIndex /\ [][NextIndex]_ctx

\* ------------------------------------------------------- sorter on any table
\* the tables of three rows and two columns over values one of which is a
\* prefix of another
SortValues == {<<"a">>, <<"a", "1">>, <<"b">>}

InitSort ==
    /\ files = Files3
    /\ pool = ToSet(Files3)
    /\ pool_order = Files3
    /\ \E c1 \in [1..3 -> SortValues], c2 \in [1..3 -> SortValues] :
          fields = [r \in 1..3 |-> <<Files3[r], <<c1[r], c2[r]>> >>]
    /\ vars = << <<>>, <<"x">> >>
    /\ groups = <<>>
    /\ renamed = PyList(<<>>)
    /\ logic_mode = "and"
    /\ operation = "sort"
    /\ fs_files = {<<f, f>> : f \in ToSet(Files3)}
    /\ fs_dirs = {<<"d">>, SubDir}
    /\ status = "running"
    /\ last = [kind |-> "operation", name |-> "sort"]
    /\ n_tokens = MaxTokens - 1
    /\ n_extract = 2
    /\ n_apply = 0

NextSort == \E sel \in ColSels, reverse \in BOOLEAN : Sorting(sel, reverse)

SpecSort == InitSort /\ [][NextSort]_ctx

\* ------------------------------------------------ the rename sub-commands on any plan
\* paths: two and three words, a name with no '.', a name starting with '.',
\* a name ending in '.', a name with two '.'
WriterPaths ==
    {<<"d", "/", "a", " ", "b", ".", "b">>, <<"d", "/", "a", " ", "b", " ", "b", ".", "b">>,
     <<"d", "/", "a">>, <<"d", "/", ".", "b">>, <<"d", "/", "a", ".">>,
     <<"d", "/", "b", ".", "a", ".", "b">>}

WriterCmds ==
    {[cmd |-> "upper"], [cmd |-> "lower"],
     [cmd |-> "replace", char |-> "b", repl |-> <<"n">>],
     [cmd |-> "sub", char |-> " ", repl |-> <<>>],
     [cmd |-> "capitalise", char |-> " ", count |-> -1, start |-> TRUE]}

\* the context when a rename sub-command is dispatched after a `format` that
\* left any plan of one or two of the paths for the files of the pool
InitWriter ==
    /\ \E f \in WriterPaths, g \in WriterPaths, n \in 1..2 :
          /\ files = SubSeq(<<<<"d", "/", "a", " ", "b", ".", "b">>,
                              <<"d", "/", "a", " ", "b", " ", "b", ".", "b">>>>, 1, n)
          /\ renamed = PyList(SubSeq(<<f, g>>, 1, n))
    /\ pool = ToSet(files)
    /\ pool_order = files
    /\ fields = <<>>
    /\ vars = <<>>
    /\ groups = <<>>
    /\ logic_mode = "and"
    /\ operation = "rename"
    /\ fs_files = {<<f, f>> : f \in pool}
    /\ fs_dirs = {<<"d">>}
    /\ status = "running"
    /\ last = [kind |-> "rename", cmd |-> "format", c |-> [cmd |-> "format"], plan |-> files]
    /\ n_tokens = MaxTokens - 1
    /\ n_extract = 0
    /\ n_apply = 0

NextWriter == \E c \in WriterCmds : Renaming(c)

SpecWriter == InitWriter /\ [][NextWriter]_ctx

\* ------------------------------------------------- last-letter on any file list
\* files with names of one, two and three letters; --span
LetterFiles ==
    {<<"d", "/", "a", ".", "b">>, <<"d", "/", "a", "b", ".", "b">>,
     <<"d", "/", "a", "b", "d", ".", "b">>}
Spans == 0..6

InitLetters ==
    /\ pool \in SUBSET LetterFiles \ {{}}
    /\ pool_order \in Perms(pool)
    /\ files = pool_order
    /\ fields = <<>>
    /\ vars = <<>>
    /\ groups = <<>>
    /\ renamed = PyList(<<>>)
    /\ logic_mode = "and"
    /\ operation = "extract"
    /\ fs_files = {<<f, f>> : f \in LetterFiles}
    /\ fs_dirs = {<<"d">>}
    /\ status = "running"
    /\ last = [kind |-> "operation", name |-> "extract"]
    /\ n_tokens = MaxTokens - 1
    /\ n_extract = 0
    /\ n_apply = 0

NextLetters == \E span \in Spans : Extraction(<<>>, [cmd |-> "last-letter", span |-> span])

SpecLetters == InitLetters /\ [][NextLetters]_ctx

\* ------------------------------------------------------------ apply on any plan
\* the proposed paths: the paths of the files themselves and a new one
PlanPaths == ToSet(Files3) \cup {<<"d", "/", "n">>}

\* the context when apply is dispatched after rename sub-commands that left
\* any plan over the proposed paths
InitRewrite ==
    /\ files = Files3
    /\ pool = ToSet(Files3)
    /\ pool_order = Files3
    /\ fields = <<>>
    /\ vars = <<>>
    /\ groups = <<>>
    /\ \E plan \in [1..3 -> PlanPaths] : renamed = PyList(plan)
    /\ logic_mode = "and"
    /\ operation = "rename"
    /\ fs_files = {<<f, f>> : f \in ToSet(Files3)}
    /\ fs_dirs = {<<"d">>}
    /\ status = "running"
    /\ last = [kind |-> "rename", cmd |-> "format", c |-> [cmd |-> "format"], plan |-> files]
    /\ n_tokens = MaxTokens - 1
    /\ n_extract = 0
    /\ n_apply = 0

NextRewrite == Apply

SpecRewrite == InitRewrite /\ [][NextRewrite]_ctx

\* ---------------------------------------------------------------- the claims
\* a step of the pipeline that dispatched a sub-command of the given kinds
Dispatched(kinds) == n_tokens' # n_tokens /\ last'.kind \in kinds

\* C1: after N extraction sub-commands every row of the attribute table holds
\* exactly N values, so no row is shorter or longer than another.
C1_EveryRowHoldsN ==
    status = "running" => \A r \in 1..Len(fields) : Len(fields[r][2]) = n_extract

\* C2: the variable-name list has one entry per column: its length is the
\* number of values of every row of the table.
C2_OneNamePerColumn ==
    status = "running" => \A r \in 1..Len(fields) : Len(vars) = Len(fields[r][2])

\* C3: an extractor whose result has not one value per row of the table makes
\* the extraction step fail, and no row gains a value.
C3_MisalignedExtractorRaises ==
    [][(n_extract' = n_extract + 1 /\ last'.n_values # last'.n_rows)
          => (status' = "error" /\ fields' = fields)]_ctx

\* the files of the groups, one after the other
GroupedFiles(gr) == Flatten([g \in 1..Len(gr) |-> gr[g][2]])

\* C4: the groups collapse_groups returns are pairwise disjoint and their union
\* is the set of the files of the input rows: each file is in exactly one
\* group, exactly once.
C4_GroupsPartitionRows ==
    (status = "running" /\ last.kind = "using") =>
        LET all == GroupedFiles(groups)
        IN  /\ Len(all) = Len(last.rows)
            /\ \A r \in 1..Len(last.rows) :
                  Cardinality({k \in 1..Len(all) : all[k] = last.rows[r][1]}) = 1

C4_Witness ==
    /\ status = "running"
    /\ last.kind = "using"
    /\ Len(groups) = 2
    /\ \E g \in 1..2 : Len(groups[g][2]) = 2

\* the group of the file of row r
GroupOf(gr, file) == CHOOSE g \in 1..Len(gr) : file \in ToSet(gr[g][2])

\* C5: two files are in the same group if and only if their selected values
\* are the same, element by element, also when a value holds a backslash.
C5_SameGroupIffSameValues ==
    (status = "running" /\ last.kind = "using") =>
        \A r, q \in 1..Len(last.rows) :
            (GroupOf(groups, last.rows[r][1]) = GroupOf(groups, last.rows[q][1]))
                <=> (last.rows[r][2] = last.rows[q][2])

\* C6: a selector step sets the pool to the intersection with the selector's
\* result under and, the union under or, the symmetric difference under xor
\* and the difference under not; an empty result under and empties the pool
\* and raises nothing.
C6_SelectorCombines ==
    [][Dispatched({"selector"}) =>
          LET P == pool
              S == last'.result
          IN  /\ status' = "running"
              /\ logic_mode = "and" => (pool' = {f \in P : f \in S} /\ pool' \subseteq P)
              /\ logic_mode = "and" /\ S = {} => pool' = {}
              /\ logic_mode = "or" => (pool' = P \cup S /\ P \subseteq pool')
              /\ logic_mode = "xor" => pool' = (P \cup S) \ (P \cap S)
              /\ logic_mode = "xor" => pool' = (S \cup P) \ (S \cap P)
              /\ logic_mode = "not" => pool' = {f \in P : f \notin S}]_ctx

C6_Witness ==
    /\ status = "running"
    /\ last.kind = "selector"
    /\ last.mode = "xor"
    /\ last.result # {}
    /\ pool # {}
    /\ pool # last.result

\* C7: the logic mode is and when the pipeline starts, only a connector token
\* changes it, to the connector it names, and a selector is combined under the
\* mode in force when it is processed.
C7_ModeIsSticky ==
    /\ logic_mode = "and"
    /\ [][/\ logic_mode' # logic_mode =>
                (Dispatched({"connector"}) /\ logic_mode' = last'.name)
          /\ Dispatched({"connector"}) => logic_mode' = last'.name
          /\ Dispatched({"selector"}) =>
                (/\ last'.mode = logic_mode
                 /\ logic_mode' = logic_mode
                 /\ logic_mode = "or" => pool' = pool \cup last'.result
                 /\ logic_mode = "not" => pool' = pool \ last'.result)]_ctx

C7_Witness ==
    /\ status = "running"
    /\ n_tokens >= 5
    /\ last.kind = "selector"
    /\ last.mode = "not"
    /\ logic_mode = "not"
    /\ fields # <<>>

\* C8: a selector changes only the pool, and is evaluated over the full listing
\* cli_select captured, never over a pool that earlier selectors shrank.
C8_SelectorsReadFullListing ==
    [][Dispatched({"selector"}) =>
          (/\ files' = files
           /\ last'.result = {f \in AllFiles : f \in last'.accepted})]_ctx

\* C9: after every sub-command dispatched to renaming() or infolding(), apply
\* included, the rename plan is a list with one proposed path per file of the
\* working file list.
C9_PlanHasOnePathPerFile ==
    (status = "running" /\ last.kind \in {"rename", "infold", "apply"}) =>
        (~renamed.none /\ Len(renamed.paths) = Len(files))

Differing(original, plan) ==
    LET n == IF Len(original) < Len(plan) THEN Len(original) ELSE Len(plan)
    IN  SelectSeq([k \in 1..n |-> <<original[k], plan[k]>>], LAMBDA p : p[1] # p[2])

\* the pairs apply called os.makedirs or os.rename for, in the order of the calls
Called(log) == [k \in 1..Len(log) |-> <<log[k].original, log[k].proposed>>]

\* C11: only an apply step changes the file system; apply takes the pairs
\* (original, proposed) in list order, passes over a pair of equal paths, and
\* moves a file only when the parent directory of the proposed path exists.
C11_OnlyApplyChangesDisk ==
    [][/\ (fs_files' # fs_files \/ fs_dirs' # fs_dirs) => n_apply' = n_apply + 1
       /\ n_apply' = n_apply + 1 =>
             LET log == last'.log
                 diff == Differing(files, last'.plan)
             IN  /\ Len(log) <= Len(diff)
                 /\ Called(log) = SubSeq(diff, 1, Len(log))
                 /\ status' = "running" => Len(log) = Len(diff)
                 /\ \A k \in 1..Len(log) :
                       log[k].outcome = "renamed" =>
                           /\ log[k].original # log[k].proposed
                           /\ dirname(log[k].proposed) \in log[k].dirs]_ctx

C11_Witness ==
    /\ status = "running"
    /\ last.kind = "apply"
    /\ Len(last.log) = 2
    /\ \E dir \in fs_dirs : dir \notin {<<"d">>, SubDir}
    /\ \A f \in AllFiles : ~\E e \in fs_files : e[1] = f

\* the directory as `select` listed it
Untouched == fs_files = {<<f, f>> : f \in AllFiles} /\ fs_dirs = {<<"d">>, SubDir}

\* C12: the files are moved after the whole chain has been consumed: no
\* rename or infold sub-command is processed once a file has been moved.
C12_MovesAfterWholeChain ==
    [][Dispatched({"rename", "infold"}) => Untouched]_ctx

\* the files after the calls of a log that ended in "renamed"
RECURSIVE Moved(_, _)
Moved(ff, log) ==
    IF log = <<>> THEN ff
    ELSE LET c == Head(log)
             content == (CHOOSE e \in ff : e[1] = c.original)[2]
         IN  Moved(IF c.outcome = "renamed"
                   THEN {e \in ff : e[1] \notin {c.original, c.proposed}}
                            \cup {<<c.proposed, content>>}
                   ELSE ff,
                   Tail(log))

\* C13: when the move or the directory creation of the N-th differing pair
\* fails, the pairs before it have been moved and stay moved, the pairs after
\* it are never attempted, and nothing is rolled back.
C13_FailureKeepsEarlierMoves ==
    [][(n_apply' = n_apply + 1 /\ status' = "error") =>
          LET log == last'.log
              diff == Differing(files, last'.plan)
              N == Len(log)
          IN  /\ N >= 1
              /\ log[N].outcome # "renamed"
              /\ \A k \in 1..(N - 1) : log[k].outcome = "renamed"
              /\ Called(log) = SubSeq(diff, 1, N)
              /\ fs_files' = Moved(fs_files, SubSeq(log, 1, N - 1))]_ctx

C13_Witness ==
    /\ status = "error"
    /\ last.kind = "raise"
    /\ last.what = "apply"
    /\ Len(last.log) = 2
    /\ last.log[1].outcome = "renamed"
    /\ \E e \in fs_files : e[1] = last.log[1].proposed

\* C14: an error on one pair does not end apply: every differing pair after
\* the failing one is still attempted.
C14_ErrorDoesNotAbortBatch ==
    [][n_apply' = n_apply + 1 =>
          Len(last'.log) = Len(Differing(files, last'.plan))]_ctx

\* every selected file parent/base is now parent/F/base, with its content
InFolder(F) ==
    /\ last.plan = [k \in 1..Len(files) |->
                        dirname(files[k]) \o <<"/">> \o F \o <<"/">> \o basename(files[k])]
    /\ \A k \in 1..Len(files) :
          /\ <<dirname(files[k]) \o <<"/">> \o F \o <<"/">> \o basename(files[k]), files[k]>>
                \in fs_files
          /\ ~\E e \in fs_files : e[1] = files[k]

Members == SelectSeq(files, LAMBDA f : \E g \in 1..Len(groups) : f \in ToSet(groups[g][2]))

\* the number of groups whose key comes before the key of group g in
\* lexicographic order, or after it when reverse is set
KeyRank(g, reverse) ==
    Cardinality({h \in 1..Len(groups) :
        IF reverse THEN StrLess(groups[g][1], groups[h][1])
        ELSE StrLess(groups[h][1], groups[g][1])})

\* the values of a group-index extraction are one per grouped file, in file
\* order, start + k*step for the k-th key
GroupIndexValues ==
    (last.kind = "extractor" /\ last.cmd = "group-index") =>
        LET v == last.values
            ex == last.ex
        IN  /\ Len(v) = Len(Members)
            /\ \A j \in 1..Len(v) :
                  v[j] = Str(ex.start + KeyRank(GroupOf(groups, Members[j]), ex.reverse) * ex.step)
            /\ \A i, j \in 1..Len(v) :
                  GroupOf(groups, Members[i]) = GroupOf(groups, Members[j]) => v[i] = v[j]
            /\ \A i, j \in 1..Len(v) :
                  (ex.step # 0 /\ GroupOf(groups, Members[i]) # GroupOf(groups, Members[j]))
                      => v[i] # v[j]

\* C16: extract_group_index returns, for every start, step and reverse, one
\* value per grouped file in file order: start + k*step for the group whose key
\* is k-th in key order (from the largest key when reverse is set); one index
\* per group, and for a step other than 0 different indices for different groups.
C16_GroupIndexByKeyOrder ==
    /\ last.kind = "raise" => last.what # "group-index"
    /\ GroupIndexValues

\* C17: extract_sub_index gives each grouped file start + step*p, p its 0-based
\* position in the file list of its group; for a step other than 0 the values
\* within a group are pairwise distinct, and the first file of a group gets start.
C17_SubIndexIsPositionInGroup ==
    (last.kind = "extractor" /\ last.cmd = "sub-index") =>
        LET v == last.values
            ex == last.ex
            mine(j) == groups[GroupOf(groups, Members[j])][2]
        IN  /\ status = "running"
            /\ Len(v) = Len(Members)
            /\ \A j \in 1..Len(v) :
                  \E p \in 0..(Len(mine(j)) - 1) :
                      /\ mine(j)[p + 1] = Members[j]
                      /\ v[j] = Str(ex.start + ex.step * p)
            /\ \A j \in 1..Len(v) : Members[j] = mine(j)[1] => v[j] = Str(ex.start)
            /\ \A i, j \in 1..Len(v) :
                  (ex.step # 0 /\ i # j /\ mine(i) = mine(j)) => v[i] # v[j]

C17_Witness ==
    /\ status = "running"
    /\ last.kind = "extractor"
    /\ last.cmd = "sub-index"
    /\ last.ex.step = 2
    /\ Len(groups) = 2
    /\ Len(last.values) = 3
    /\ \E g \in 1..2 : groups[g][2] = <<F3, F1>>

C19_UnboundVariableAborts ==
    /\ [][(/\ Dispatched({"by", "using", "raise"})
            /\ operation \in {"sort", "group"}
            /\ last'.sel.opt = "var"
            /\ \E k \in 1..Len(last'.sel.names) : last'.sel.names[k] \notin ToSet(vars))
           => (/\ status' = "error"
               /\ last'.kind = "raise"
               /\ last'.error.arg \in ToSet(last'.sel.names) \ ToSet(vars)
               /\ files' = files
               /\ groups' = groups)]_ctx
    /\ [][status = "running"]_ctx

C19_Witness ==
    /\ status = "error"
    /\ last.kind = "raise"
    /\ last.what = "using"
    /\ last.error.type = "ValueError"
    /\ last.error.arg = <<"y">>
    /\ vars # <<>>
    /\ groups # <<>>

\* a rename or infold sub-command whose template, if it has one, names no
\* extracted variable
NoVariable(c) ==
    c.cmd \in {"format", "folder-template"} =>
        \A k \in 1..Len(c.template) :
            c.template[k].key =>
                c.template[k].text \in {<<"b", "a", "s", "e", "n", "a", "m", "e">>,
                                        <<"g", "r", "o", "u", "p">>}

\* C20: before any extraction, a sort, group, rename or infold sub-command
\* that names no variable (columns by index, slice or --all; format and
\* folder-template) completes without error, and no file is dropped from the
\* working file list or from the rename plan.
C20_EarlyOperationsUseDefaults ==
    [][(/\ n_tokens' # n_tokens
        /\ vars = <<>>
        /\ \/ /\ operation \in {"sort", "group"}
              /\ last'.kind \in {"by", "using", "raise"}
              /\ last'.sel.opt # "var"
           \/ /\ operation \in {"rename", "infold"}
              /\ last'.kind \in {"rename", "infold"} \/ (last'.kind = "raise" /\ last'.what # "apply")
              /\ NoVariable(last'.c))
       => (/\ status' = "running"
           /\ ToSet(files) \subseteq ToSet(files')
           /\ operation \in {"rename", "infold"} =>
                 (~renamed'.none /\ Len(renamed'.paths) = Len(files)))]_ctx

\* C21: the session is a function of the chain and of the listing: the file
\* list an operation token snapshots from the pool is the listing, in discovery
\* order, cut down to the pool, so two runs agree on every later list, table
\* (position values included), group map and rename plan.
C21_SnapshotInDiscoveryOrder ==
    [][(Dispatched({"operation"}) /\ last'.name # "select") =>
          files' = SelectSeq(Listing, LAMBDA f : f \in pool)]_ctx

\* the first column bound to the name, from 1
FirstCol(name) ==
    CHOOSE i \in 1..Len(vars) : vars[i] = name /\ \A j \in 1..(i - 1) : vars[j] # name

\* C22: a name bound to more than one column resolves to the first column
\* bound to it, in `by --var` and `using --var` and in the placeholders of
\* format and folder-template.
C22_NameResolvesToFirstColumn ==
    [][/\ (Dispatched({"by", "using"}) /\ last'.sel.opt = "var") =>
             LET rows == [r \in 1..Len(fields) |->
                            <<fields[r][1], <<fields[r][2][FirstCol(last'.sel.names[1])]>> >>]
             IN  /\ last'.kind = "using" => last'.rows = rows
                 /\ last'.kind = "by" => files' = sorter(rows, last'.reverse)
       /\ (/\ Dispatched({"rename", "infold"})
           /\ last'.cmd \in {"format", "folder-template"}
           /\ last'.c.template = <<Key(<<"x">>)>>) =>
             \A k \in 1..Len(renamed'.paths) :
                 LET value == fields[k][2][FirstCol(<<"x">>)]
                     from == last'.plan[k]
                 IN  renamed'.paths[k] =
                        IF last'.cmd = "format" THEN dirname(from) \o <<"/">> \o value
                        ELSE dirname(from) \o <<"/">> \o value \o <<"/">> \o basename(from)]_ctx

\* s < t for tuples of str: the first differing value decides
RECURSIVE TupleLess(_, _)
TupleLess(s, t) ==
    IF t = <<>> THEN FALSE
    ELSE IF s = <<>> THEN TRUE
    ELSE IF Head(s) # Head(t) THEN StrLess(Head(s), Head(t))
    ELSE TupleLess(Tail(s), Tail(t))

\* the selected values of the row of a file
ValuesOf(rows, file) == rows[CHOOSE r \in 1..Len(rows) : rows[r][1] = file][2]

\* C23: after `by`, the files are in non-decreasing order (non-increasing with
\* --reverse) of their tuples of selected values, the first selected variable
\* the most significant.
C23_SortedByTuples ==
    (status = "running" /\ last.kind = "by") =>
        LET rows == Selected(last.sel, TRUE)
        IN  \A k \in 1..(Len(files) - 1) :
                IF last.reverse
                THEN ~TupleLess(ValuesOf(rows, files[k]), ValuesOf(rows, files[k + 1]))
                ELSE ~TupleLess(ValuesOf(rows, files[k + 1]), ValuesOf(rows, files[k]))

\* C24: the order `by` establishes is the order the following operations see:
\* the operation token after a sort of the pooled files keeps the sorted file
\* list, and an
\* `extract position` numbers the files by their place in the current file
\* list, the first one getting start.
C24_PositionFollowsSort ==
    [][/\ (/\ last.kind = "by"
           /\ ToSet(files) = pool
           /\ Dispatched({"operation"})
           /\ last'.name # "select") =>
             files' = files
       /\ (Dispatched({"extractor"}) /\ last'.cmd = "position") =>
             \A k \in 1..Len(files), r \in 1..Len(fields') :
                 fields'[r][1] = files[k] =>
                     /\ fields'[r][2] # <<>>
                     /\ fields'[r][2][Len(fields'[r][2])]
                            = Str(last'.ex.start + (k - 1) * last'.ex.step)]_ctx

\* the index of the first '.' of the basename of p, Len + 1 when it has none
FirstDot(p) ==
    LET base == basename(p)
    IN  IF \A k \in 1..Len(base) : base[k] # "." THEN Len(base) + 1
        ELSE CHOOSE k \in 1..Len(base) : base[k] = "." /\ \A j \in 1..(k - 1) : base[j] # "."

\* the basename of p before its first '.', and from its first '.' on
Stem(p) == SubSeq(basename(p), 1, FirstDot(p) - 1)
Suffix(p) == SubSeq(basename(p), FirstDot(p), Len(basename(p)))

\* C25: replace, sub, capitalise, upper and lower return one path per input
\* path, in order, and change only the basename before its first '.': the
\* directory and everything from the first '.' on are those of the input.
C25_OnlyTheStemChanges ==
    (last.kind = "rename"
        /\ last.cmd \in {"replace", "sub", "capitalise", "upper", "lower"}) =>
        /\ Len(renamed.paths) = Len(last.plan)
        /\ \A k \in 1..Len(last.plan) :
              /\ dirname(renamed.paths[k]) = dirname(last.plan[k])
              /\ Suffix(renamed.paths[k]) = Suffix(last.plan[k])

\* the name with the first character of every word in upper case
CapitalizedWords(name, sep) ==
    [i \in 1..Len(name) |-> IF i = 1 \/ name[i - 1] = sep THEN UpperChar(name[i]) ELSE name[i]]

\* C26: capitalize with count -1 and capitalize_start upper-cases the first
\* character of every word of every name and nothing else, and the result for
\* a file is the result of capitalize on that file alone.
C26_CapitalizeEveryWordOfEveryFile ==
    (last.kind = "rename" /\ last.cmd = "capitalise") =>
        \A k \in 1..Len(last.plan) :
            /\ Stem(renamed.paths[k]) = CapitalizedWords(Stem(last.plan[k]), last.c.char)
            /\ renamed.paths[k]
                  = capitalize(<<last.plan[k]>>, last.c.char, last.c.count, last.c.start)[1]

\* C27: extract_last_letters with span n returns for every file the last
\* min(n, L) characters of its name without extension, L the length of that
\* name: the whole name when n >= L.
C27_LastLettersUpToWholeName ==
    (last.kind = "extractor" /\ last.cmd = "last-letter") =>
        /\ Len(last.values) = Len(files)
        /\ \A k \in 1..Len(files) :
              LET name == Stem(files[k])
                  L == Len(name)
                  n == last.ex.span
                  m == IF n < L THEN n ELSE L
              IN  last.values[k] = SubSeq(name, L - m + 1, L)

\* C28: when the proposed paths of the plan are pairwise distinct, apply
\* loses no file: as many files after as before, and the content of every
\* original at its proposed path, also when proposed paths are the original
\* paths of other files of the plan.
C28_DistinctPlanLosesNoFile ==
    (n_apply = 1 /\ last.kind \in {"apply", "raise"}) =>
        LET plan == last.plan
        IN  (\A i, j \in 1..Len(plan) : i # j => plan[i] # plan[j]) =>
                /\ Cardinality(fs_files) = Len(files)
                /\ \A k \in 1..Len(plan) : <<plan[k], files[k]>> \in fs_files

\* the number of places of the list fl that hold f
Occurrences(fl, f) == Cardinality({k \in 1..Len(fl) : fl[k] = f})

\* C29: `by` only reorders: the working file list after a `by` sub-command
\* is a permutation of the working file list before it, wherever the sort
\* stands in the chain.
C29_ByOnlyReorders ==
    last.kind = "by" =>
        /\ Len(files) = Len(last.before)
        /\ \A f \in ToSet(files) \cup ToSet(last.before) :
              Occurrences(files, f) = Occurrences(last.before, f)

\* C30: during a select phase the pool is a subset of the listing captured
\* at select start, and a selector combined under OR with a pool that is the
\* whole listing leaves the pool the whole listing.
C30_PoolWithinListing ==
    /\ [](operation = "select" => pool \subseteq AllFiles)
    /\ [][(Dispatched({"selector"}) /\ logic_mode = "or" /\ pool = AllFiles) =>
             pool' = AllFiles]_ctx

\* the first selector of a chain, under OR, accepting a part of the listing
C30_Witness ==
    /\ last.kind = "selector"
    /\ last.mode = "or"
    /\ n_tokens <= 3
    /\ last.result # AllFiles
    /\ operation = "select"
    /\ pool = AllFiles
====
